---- MODULE Spec2Model ----
(***************************************************************************)
(* Model of the JDL_system transport layer: the BoundedBus of bus.py and   *)
(* the two topologies that use it (centralized.py, distributed.py).        *)
(*                                                                         *)
(* Every method of BoundedBus runs its body inside `with self._cv`, so one *)
(* action of the model is one lock-protected section: from acquiring the   *)
(* condition's lock to releasing it (by leaving the block, by raising, or  *)
(* by calling self._cv.wait()).  Condition.wait() registers the caller as  *)
(* a waiter before it releases the lock; notify_all() moves every          *)
(* registered waiter to the woken state, from which it re-acquires the     *)
(* lock and re-evaluates its while-condition.                              *)
(***************************************************************************)
EXTENDS Integers, Sequences, FiniteSets, TLC

(* ------------------------------ bounds -------------------------------- *)
MaxOps == 3        \* bus calls started in one behaviour of the bus specification
MaxCap == 2        \* largest capacity_triples tried
MaxMany == 2       \* longest argument of put_many
MaxN == 3          \* most triples stage-1 aggregation yields in a topology run
MaxBatch == 2      \* largest worker_batch_size / master_batch_size tried

Threads == {"t1", "t2", "t3"}

\* The bus never looks inside a triple, so a triple is modelled by a tag that
\* names it: the i-th triple handed over by the k-th call.
Tag(k, i) == k * (MaxMany + 1) + i

VARIABLES
    capacity,   \* BoundedBus._capacity
    queue,      \* BoundedBus._queue (head = left end of the deque)
    closed,     \* BoundedBus._closed
    pc,         \* per thread: where it is inside a bus call
    op,         \* per thread: the method it called last
    arg,        \* per thread: the triples still to be put (head = the one in put)
    tmo,        \* per thread: TRUE when get was called with a timeout
    res,        \* per thread: what the call returned or raised
    waited,     \* per thread: the call has been inside self._cv.wait()
    enq,        \* history: every triple appended to _queue, in order
    deq,        \* history: every triple removed from _queue, in order
    nops,       \* number of bus calls started
    last,       \* the thread that started the latest bus call
    nclose,     \* number of close() calls completed
    \* ---- a topology run (run_centralized / run_distributed) ----
    topo,       \* "bus" (no topology), "central" or "distributed"
    cfg,        \* the arguments of the run
    q1out,      \* what q1_vehicle_count_observations yields, in order
    tpc,        \* per thread: where it is in worker() / master(); main's place
    wpos,       \* worker: how many triples it has taken from q1
    wbatch,     \* run_distributed.worker: its local list `batch`
    mbatch,     \* master: its local list `batch` (centralized: what is left of it)
    memory_hog, \* run_centralized.master: "none", "held" or "failed" (allocation raised)
    store,      \* obs_graph: the triples appended to it, in order
    appends,    \* history: the argument of every append_triples_to_graph call
    flushes,    \* history: the argument of every put_many call of the worker
    q2calls,    \* how often q2_situation_refinement_over_graph has been called
    q2in,       \* the store as stage-2 aggregation found it
    \* ---- memory tracing (tracemalloc) and the scopes of measure_run ----
    tracing,    \* tracemalloc.is_tracing()
    traced_peak,\* tracemalloc.get_traced_memory()[1], in units of memory
    scopes,     \* the measure_run scopes that are open, outermost first; of each
                \* one: how much its body has allocated (history)
    left,       \* how the latest scope was left: "none", "normal" or "raised"
    metrics,    \* peak_memory_bytes of the latest RunMetrics read (NoMetrics: none)
    \* ---- the harness (run_experiment) ----
    xpc,        \* where run_experiment is
    xrun,       \* the topology it is measuring: "Centralized" or "Distributed"
    rets,       \* per topology: what run_centralized / run_distributed returned
    outs,       \* per topology: centralized_out / distributed_out
    run_metrics,\* per topology: peak_memory_bytes of centralized_metrics / distributed_metrics
    printed     \* the result lines printed so far, in order

busvars == <<capacity, queue, closed, pc, op, arg, tmo, res, waited, enq, deq, nops, last, nclose>>
tvars == <<topo, cfg, q1out, tpc, wpos, wbatch, mbatch, memory_hog, store, appends, flushes, q2calls, q2in>>
mvars == <<tracing, traced_peak, scopes, left, metrics>>
xvars == <<xpc, xrun, rets, outs, run_metrics, printed>>
vars == <<busvars, tvars, mvars, xvars>>

(* ------------------------- results of a call --------------------------- *)
NoRes == [kind |-> "none", val |-> <<>>]
Ok == [kind |-> "ok", val |-> <<>>]                 \* a method that returns None normally
BusClosedError == [kind |-> "RuntimeError", val |-> <<>>]
Empty == [kind |-> "empty", val |-> <<>>]            \* get returning None
ItemRes(x) == [kind |-> "item", val |-> <<x>>]
ListRes(s) == [kind |-> "list", val |-> s]
BoolRes(b) == [kind |-> "bool", val |-> IF b THEN <<1>> ELSE <<0>>]
IntRes(n) == [kind |-> "int", val |-> <<n>>]

(* --------------------------- the condition ----------------------------- *)
\* mutant: notify() in place of notify_all(), one waiter is woken
M_notify_one(p) ==
    IF \E u \in DOMAIN p : p[u] \in {"put_wait", "get_wait"}
    THEN LET u == CHOOSE v \in DOMAIN p : p[v] \in {"put_wait", "get_wait"}
         IN  [p EXCEPT ![u] = IF p[u] = "put_wait" THEN "put_woken" ELSE "get_woken"]
    ELSE p

\* self._cv.notify_all(): every thread inside wait() is woken
notify_all(p) ==
    [u \in DOMAIN p |->
        IF p[u] = "put_wait" THEN "put_woken"
        ELSE IF p[u] = "get_wait" THEN "get_woken"
        ELSE p[u]]

(* ------------------------ BoundedBus.__init__ -------------------------- *)
\* mutant: a constructor that lets capacity 0 through
M_ctor_accepts_zero(capacity_triples) == capacity_triples < 0

\* bus.py 17-18: a capacity_triples <= 0 raises ValueError
ctor_raises(capacity_triples) == capacity_triples <= 0

(* --------------------- conditions tested by the code ------------------- *)
\* mutants of the while-condition of put: an off-by-one bound, and no wait at all
M_put_must_wait_gt(c, q, cap) == ~c /\ Len(q) > cap
M_put_never_waits(c, q, cap) == FALSE

\* bus.py 30: while not self._closed and len(self._queue) >= self._capacity
put_must_wait(c, q, cap) == ~c /\ Len(q) >= cap

\* mutant: put without the check of _closed after its wait
M_put_never_raises(c) == FALSE

\* bus.py 32: if self._closed: raise RuntimeError("BUS is closed")
put_raises(c) == c

\* mutant: a get with a timeout gives up instead of waiting again
M_get_gives_up(c, q, hasTimeout) == ~hasTimeout /\ ~c /\ Len(q) = 0

\* bus.py 53 and 57: while not self._closed and len(self._queue) == 0
\* (the branch with a timeout loops on the same condition as the one without)
get_must_wait(c, q, hasTimeout) == ~c /\ Len(q) = 0

\* mutant: try_put that only tests the flag
M_try_put_ignores_full(c, q, cap) == c

\* mutant: try_put that only tests the length
M_try_put_ignores_closed(c, q, cap) == Len(q) >= cap

\* bus.py 40: if self._closed or len(self._queue) >= self._capacity
try_put_refuses(c, q, cap) == c \/ Len(q) >= cap

\* mutant: put adds the triple at the front of the queue
M_q_append_front(q, x) == <<x>> \o q

\* bus.py 34 / 42: self._queue.append(triple)
q_append(q, x) == Append(q, x)

\* mutants: get returning the newest triple; get leaving the triple queued
M_q_item_last(q) == q[Len(q)]
M_q_popleft_keeps(q) == q

\* bus.py 61: item = self._queue.popleft()
q_item(q) == Head(q)
q_popleft(q) == Tail(q)

\* mutant: drain_all leaving the newest triple behind
M_q_clear_keeps_last(q) == IF q = <<>> THEN q ELSE <<q[Len(q)]>>

\* bus.py 67-68: items = list(self._queue); self._queue.clear()
q_items(q) == q
q_clear(q) == <<>>

\* mutant: close() flipping the flag
M_close_toggles(c) == ~c

\* bus.py 74: self._closed = True
closed_after_close(c) == TRUE

(* --------------------------- BoundedBus.put ---------------------------- *)
\* bus.py 29-35 for the triple Head(xs), one pass from (re)acquiring the lock
\* to releasing it.  Tail(xs) are the triples a put_many (bus.py 47-48) still
\* has to put: after an enqueue the thread goes on with the next of them.
put_pass(t, xs, w) ==
    /\ IF put_must_wait(closed, queue, capacity)
       THEN /\ pc' = [pc EXCEPT ![t] = "put_wait"]
            /\ arg' = [arg EXCEPT ![t] = xs]
            /\ res' = [res EXCEPT ![t] = NoRes]
            /\ waited' = [waited EXCEPT ![t] = TRUE]
            /\ UNCHANGED <<queue, enq>>
       ELSE IF put_raises(closed)
       THEN /\ pc' = [pc EXCEPT ![t] = "idle"]
            /\ arg' = [arg EXCEPT ![t] = xs]
            /\ res' = [res EXCEPT ![t] = BusClosedError]
            /\ waited' = [waited EXCEPT ![t] = w]
            /\ UNCHANGED <<queue, enq>>
       ELSE /\ queue' = q_append(queue, Head(xs))
            /\ enq' = Append(enq, Head(xs))
            /\ arg' = [arg EXCEPT ![t] = Tail(xs)]
            /\ IF Tail(xs) = <<>>
               THEN /\ pc' = [notify_all(pc) EXCEPT ![t] = "idle"]
                    /\ res' = [res EXCEPT ![t] = Ok]
               ELSE /\ pc' = [notify_all(pc) EXCEPT ![t] = "put"]
                    /\ res' = [res EXCEPT ![t] = NoRes]
            /\ waited' = [waited EXCEPT ![t] = w]
    /\ UNCHANGED <<capacity, closed, deq, nclose>>

\* bus.py 46-48: put_many(triples); an empty iterable returns at once
put_many_pass(t, xs, w) ==
    IF xs = <<>>
    THEN /\ pc' = [pc EXCEPT ![t] = "idle"]
         /\ arg' = [arg EXCEPT ![t] = <<>>]
         /\ res' = [res EXCEPT ![t] = Ok]
         /\ waited' = [waited EXCEPT ![t] = w]
         /\ UNCHANGED <<capacity, queue, closed, enq, deq, nclose>>
    ELSE put_pass(t, xs, w)

(* ------------------------- BoundedBus.try_put -------------------------- *)
\* bus.py 39-44
try_put_pass(t, x, w) ==
    /\ IF try_put_refuses(closed, queue, capacity)
       THEN /\ pc' = [pc EXCEPT ![t] = "idle"]
            /\ res' = [res EXCEPT ![t] = BoolRes(FALSE)]
            /\ UNCHANGED <<queue, enq>>
       ELSE /\ queue' = q_append(queue, x)
            /\ enq' = Append(enq, x)
            /\ pc' = [notify_all(pc) EXCEPT ![t] = "idle"]
            /\ res' = [res EXCEPT ![t] = BoolRes(TRUE)]
    /\ arg' = [arg EXCEPT ![t] = <<>>]
    /\ waited' = [waited EXCEPT ![t] = w]
    /\ UNCHANGED <<capacity, closed, deq, nclose>>

(* --------------------------- BoundedBus.get ---------------------------- *)
\* bus.py 51-63, one pass from (re)acquiring the lock to releasing it
get_pass(t, hasTimeout, w) ==
    /\ IF get_must_wait(closed, queue, hasTimeout)
       THEN /\ pc' = [pc EXCEPT ![t] = "get_wait"]
            /\ res' = [res EXCEPT ![t] = NoRes]
            /\ waited' = [waited EXCEPT ![t] = TRUE]
            /\ UNCHANGED <<queue, deq>>
       ELSE IF Len(queue) = 0
       THEN /\ pc' = [pc EXCEPT ![t] = "idle"]
            /\ res' = [res EXCEPT ![t] = Empty]
            /\ waited' = [waited EXCEPT ![t] = w]
            /\ UNCHANGED <<queue, deq>>
       ELSE /\ res' = [res EXCEPT ![t] = ItemRes(q_item(queue))]
            /\ deq' = Append(deq, q_item(queue))
            /\ queue' = q_popleft(queue)
            /\ pc' = [notify_all(pc) EXCEPT ![t] = "idle"]
            /\ waited' = [waited EXCEPT ![t] = w]
    /\ arg' = [arg EXCEPT ![t] = <<>>]
    /\ UNCHANGED <<capacity, closed, enq, nclose>>

\* mutant: drain_all() without notify_all()
M_drain_all_no_notify(t, w) ==
    /\ res' = [res EXCEPT ![t] = ListRes(q_items(queue))]
    /\ deq' = deq \o q_items(queue)
    /\ queue' = q_clear(queue)
    /\ pc' = [pc EXCEPT ![t] = "idle"]
    /\ arg' = [arg EXCEPT ![t] = <<>>]
    /\ waited' = [waited EXCEPT ![t] = w]
    /\ UNCHANGED <<capacity, closed, enq, nclose>>

(* ------------------------ BoundedBus.drain_all ------------------------- *)
\* bus.py 66-70
drain_all_pass(t, w) ==
    /\ res' = [res EXCEPT ![t] = ListRes(q_items(queue))]
    /\ deq' = deq \o q_items(queue)
    /\ queue' = q_clear(queue)
    /\ pc' = [notify_all(pc) EXCEPT ![t] = "idle"]
    /\ arg' = [arg EXCEPT ![t] = <<>>]
    /\ waited' = [waited EXCEPT ![t] = w]
    /\ UNCHANGED <<capacity, closed, enq, nclose>>

\* mutant: close() without notify_all()
M_close_no_notify(t, w) ==
    /\ closed' = TRUE
    /\ pc' = [pc EXCEPT ![t] = "idle"]
    /\ res' = [res EXCEPT ![t] = Ok]
    /\ nclose' = nclose + 1
    /\ arg' = [arg EXCEPT ![t] = <<>>]
    /\ waited' = [waited EXCEPT ![t] = w]
    /\ UNCHANGED <<capacity, queue, enq, deq>>

(* -------------------------- BoundedBus.close --------------------------- *)
\* bus.py 73-75
close_pass(t, w) ==
    /\ closed' = closed_after_close(closed)
    /\ pc' = [notify_all(pc) EXCEPT ![t] = "idle"]
    /\ res' = [res EXCEPT ![t] = Ok]
    /\ nclose' = nclose + 1
    /\ arg' = [arg EXCEPT ![t] = <<>>]
    /\ waited' = [waited EXCEPT ![t] = w]
    /\ UNCHANGED <<capacity, queue, enq, deq>>

\* mutant: size() emptying the queue it counts
M_size_pass_drains(t, w) ==
    /\ pc' = [pc EXCEPT ![t] = "idle"]
    /\ res' = [res EXCEPT ![t] = IntRes(Len(queue))]
    /\ queue' = <<>>
    /\ arg' = [arg EXCEPT ![t] = <<>>]
    /\ waited' = [waited EXCEPT ![t] = w]
    /\ UNCHANGED <<capacity, closed, enq, deq, nclose>>

(* --------------------------- BoundedBus.size --------------------------- *)
\* bus.py 78-79
size_pass(t, w) ==
    /\ pc' = [pc EXCEPT ![t] = "idle"]
    /\ res' = [res EXCEPT ![t] = IntRes(Len(queue))]
    /\ arg' = [arg EXCEPT ![t] = <<>>]
    /\ waited' = [waited EXCEPT ![t] = w]
    /\ UNCHANGED <<capacity, queue, closed, enq, deq, nclose>>

(* ------------- callers of the bus: any thread, any method -------------- *)
\* A thread that is not inside a bus call starts one: the call and the first
\* pass of the method's locked section are one step (the call itself touches
\* nothing that is shared).
Calls(t, m, hasTimeout) ==
    /\ pc[t] = "idle"
    /\ nops < MaxOps
    /\ UNCHANGED <<tvars, mvars, xvars>>
    /\ nops' = nops + 1
    /\ last' = t
    /\ op' = [op EXCEPT ![t] = m]
    /\ tmo' = [tmo EXCEPT ![t] = hasTimeout]

put(t) == Calls(t, "put", FALSE) /\ put_pass(t, <<Tag(nops, 1)>>, FALSE)

try_put(t) == Calls(t, "try_put", FALSE) /\ try_put_pass(t, Tag(nops, 1), FALSE)

put_many(t) ==
    \E n \in 0..MaxMany :
        /\ Calls(t, "put_many", FALSE)
        /\ put_many_pass(t, [i \in 1..n |-> Tag(nops, i)], FALSE)

get(t) ==
    \E hasTimeout \in BOOLEAN :
        Calls(t, "get", hasTimeout) /\ get_pass(t, hasTimeout, FALSE)

drain_all(t) == Calls(t, "drain_all", FALSE) /\ drain_all_pass(t, FALSE)

close(t) == Calls(t, "close", FALSE) /\ close_pass(t, FALSE)

size(t) == Calls(t, "size", FALSE) /\ size_pass(t, FALSE)

\* A thread inside put, woken by notify_all or between two puts of a put_many,
\* takes the lock again: bus.py 30, the while-condition is evaluated again.
put_resume(t) ==
    /\ pc[t] \in {"put", "put_woken"}
    /\ put_pass(t, arg[t], waited[t])
    /\ UNCHANGED <<op, tmo, nops, last>>
    /\ UNCHANGED <<tvars, mvars, xvars>>

\* A thread inside get, woken by notify_all or by the expiry of its timeout,
\* takes the lock again: bus.py 53 / 57, the while-condition is evaluated again.
get_resume(t) ==
    /\ pc[t] \in {"get_woken", "get_expired"}
    /\ get_pass(t, tmo[t], waited[t])
    /\ UNCHANGED <<op, tmo, nops, last>>
    /\ UNCHANGED <<tvars, mvars, xvars>>

\* bus.py 58: self._cv.wait(timeout) returns because the timeout expired
get_timeout(t) ==
    /\ pc[t] = "get_wait"
    /\ tmo[t]
    /\ pc' = [pc EXCEPT ![t] = "get_expired"]
    /\ UNCHANGED <<capacity, queue, closed, op, arg, tmo, res, waited, enq, deq, nops, last, nclose>>
    /\ UNCHANGED <<tvars, mvars, xvars>>

\* no scope of measure_run has been opened and memory is not traced
NoMetrics == -1
\* run_experiment has not begun: no run has returned, nothing is printed
Runs == {"Centralized", "Distributed"}
NoValue == [type |-> "none", items |-> <<>>]
XInit ==
    /\ xpc = "with"
    /\ xrun = "Centralized"
    /\ rets = [r \in Runs |-> NoValue]
    /\ outs = [r \in Runs |-> NoValue]
    /\ run_metrics = [r \in Runs |-> NoMetrics]
    /\ printed = <<>>

MInit ==
    /\ tracing = FALSE
    /\ traced_peak = 0
    /\ scopes = <<>>
    /\ left = "none"
    /\ metrics = NoMetrics

(* ------------------- specification of the bus alone -------------------- *)
Init ==
    /\ MInit /\ XInit
    /\ capacity \in 1..MaxCap
    /\ queue = <<>>
    /\ closed = FALSE
    /\ pc = [t \in Threads |-> "idle"]
    /\ op = [t \in Threads |-> "none"]
    /\ arg = [t \in Threads |-> <<>>]
    /\ tmo = [t \in Threads |-> FALSE]
    /\ res = [t \in Threads |-> NoRes]
    /\ waited = [t \in Threads |-> FALSE]
    /\ enq = <<>>
    /\ deq = <<>>
    /\ nops = 0
    /\ last = "none"
    /\ nclose = 0
    /\ topo = "bus"
    /\ cfg = [bus_capacity |-> capacity]
    /\ q1out = <<>>
    /\ tpc = [t \in Threads |-> "none"]
    /\ wpos = 0
    /\ wbatch = <<>>
    /\ mbatch = <<>>
    /\ memory_hog = "none"
    /\ store = <<>>
    /\ appends = <<>>
    /\ flushes = <<>>
    /\ q2calls = 0
    /\ q2in = <<>>

Next ==
    \E t \in Threads :
        \/ put(t)
        \/ try_put(t)
        \/ put_many(t)
        \/ get(t)
        \/ drain_all(t)
        \/ close(t)
        \/ size(t)
        \/ put_resume(t)
        \/ get_resume(t)
        \/ get_timeout(t)

Spec == Init /\ [][Next]_vars

\* A thread that was woken (or is between two puts of a put_many) gets the
\* lock in the end: every holder of the lock releases it after a bounded
\* section, bus.py 29-35, 39-44, 51-63, 66-70, 73-75, 78-79.
Fairness == \A t \in Threads : WF_vars(put_resume(t)) /\ WF_vars(get_resume(t))
FairSpec == Spec /\ Fairness

(* ======================= the two topologies =========================== *)
TThreads == {"w", "m"}
W == "w"
M == "m"

\* A topology thread calls a bus method: the bookkeeping of the call.
TCall(t, m, hasTimeout) ==
    /\ op' = [op EXCEPT ![t] = m]
    /\ tmo' = [tmo EXCEPT ![t] = hasTimeout]
    /\ UNCHANGED <<nops, last>>

Max(a, b) == IF a >= b THEN a ELSE b

\* what stage-1 aggregation yields: the triples 1..n, in this order
Q1Output(n) == [i \in 1..n |-> i]

TInitCommon ==
    /\ MInit /\ XInit
    /\ queue = <<>>
    /\ closed = FALSE
    /\ pc = [t \in TThreads |-> "idle"]
    /\ op = [t \in TThreads |-> "none"]
    /\ arg = [t \in TThreads |-> <<>>]
    /\ tmo = [t \in TThreads |-> FALSE]
    /\ res = [t \in TThreads |-> NoRes]
    /\ waited = [t \in TThreads |-> FALSE]
    /\ enq = <<>>
    /\ deq = <<>>
    /\ nops = 0
    /\ last = "none"
    /\ nclose = 0
    /\ q1out \in {Q1Output(n) : n \in 0..MaxN}
    /\ wpos = 0
    /\ wbatch = <<>>
    /\ mbatch = <<>>
    /\ memory_hog = "none"
    /\ store = <<>>
    /\ appends = <<>>
    /\ flushes = <<>>
    /\ q2calls = 0
    /\ q2in = <<>>

(* ---- threads of a run: centralized.py 67-74, distributed.py 69-76 ---- *)
\* wt.start()
main_start_w ==
    /\ tpc["main"] = "start_w"
    /\ tpc' = [tpc EXCEPT !["main"] = "start_m", ![W] = "loop"]
    /\ UNCHANGED <<busvars, mvars, xvars, topo, cfg, q1out, wpos, wbatch, mbatch, memory_hog, store,
                   appends, flushes, q2calls, q2in>>

\* mt.start()
main_start_m ==
    /\ tpc["main"] = "start_m"
    /\ tpc' = [tpc EXCEPT !["main"] = "join_w",
                          ![M] = IF topo = "central" THEN "alloc" ELSE "get"]
    /\ UNCHANGED <<busvars, mvars, xvars, topo, cfg, q1out, wpos, wbatch, mbatch, memory_hog, store,
                   appends, flushes, q2calls, q2in>>

\* mutant: a join that does not wait for its thread
M_join_does_not_wait(s) == TRUE

\* Thread.join returns once the thread's function has returned or raised
thread_terminated(s) == s \in {"done", "raised"}

\* wt.join()
main_join_w ==
    /\ tpc["main"] = "join_w"
    /\ thread_terminated(tpc[W])
    /\ tpc' = [tpc EXCEPT !["main"] = "join_m"]
    /\ UNCHANGED <<busvars, mvars, xvars, topo, cfg, q1out, wpos, wbatch, mbatch, memory_hog, store,
                   appends, flushes, q2calls, q2in>>

\* mt.join(); return iter(q2_results), transfer_seconds
main_join_m ==
    /\ tpc["main"] = "join_m"
    /\ thread_terminated(tpc[M])
    /\ tpc' = [tpc EXCEPT !["main"] = "returned"]
    /\ UNCHANGED <<busvars, mvars, xvars, topo, cfg, q1out, wpos, wbatch, mbatch, memory_hog, store,
                   appends, flushes, q2calls, q2in>>

\* mutant: the worker's put gives up its wait and returns
M_w_put_times_out ==
    /\ pc[W] = "put_wait"
    /\ pc' = [pc EXCEPT ![W] = "idle"]
    /\ res' = [res EXCEPT ![W] = Ok]
    /\ UNCHANGED <<capacity, queue, closed, op, arg, tmo, waited, enq, deq, nops, last,
                   nclose>>
    /\ UNCHANGED <<tvars, mvars, xvars>>

\* the worker's put and the master's get going on after a wait
w_put_resume == put_resume(W)
m_get_resume == get_resume(M)
m_get_timeout == get_timeout(M)

\* centralized.py 64-65, distributed.py 66-67: stage-2 aggregation over the store
\* and raising ends the thread at once
master_q2 ==
    /\ tpc[M] = "q2"
    /\ q2calls' = q2calls + 1
    /\ q2in' = store
    /\ tpc' = [tpc EXCEPT ![M] = IF cfg.master_fails = "q2" THEN "raised" ELSE "done"]
    /\ UNCHANGED <<busvars, mvars, xvars, topo, cfg, q1out, wpos, wbatch, mbatch, memory_hog, store,
                   appends, flushes>>

\* mutant: the consumer leaves its loop after any get
M_break_on_any_item(r) == TRUE

\* centralized.py 51, distributed.py 53: if item is None: break
item_is_None(r) == r = Empty

\* mutant: a producer that closes the bus only when it ends normally
M_close_only_on_success(raising) == ~raising

\* centralized.py 33-37, distributed.py 34-44: try: ... finally: bus.close();
\* the finally clause runs whether or not the try block is raising
worker_finally_runs(raising) == TRUE

\* centralized.py 39-65, distributed.py 46-67: the master's function has no
\* try block, so append_triples_to_graph raising (centralized.py 60,
\* distributed.py 63) ends the thread where it stands
m_append_raises ==
    /\ cfg.master_fails = "append"
    /\ \/ tpc[M] = "append"
       \/ topo = "distributed" /\ tpc[M] = "more" /\ pc[M] = "idle"
            /\ Len(mbatch) >= Max(1, cfg.master_batch_size)
    /\ tpc' = [tpc EXCEPT ![M] = "raised"]
    /\ UNCHANGED <<busvars, mvars, xvars, topo, cfg, q1out, wpos, wbatch, mbatch, memory_hog, store,
                   appends, flushes, q2calls, q2in>>

(* --------------------------- run_centralized --------------------------- *)
\* centralized.py 27: bus = BoundedBus(bus_capacity), which may raise
CentralInit ==
    /\ TInitCommon
    /\ topo = "central"
    /\ cfg \in [bus_capacity : -1..MaxCap, heavy_q2_memory_mb : 0..1,
                q1_raises : BOOLEAN, master_fails : {"none", "append", "q2"},
                worker_batch_size : {0}, master_batch_size : {0}]
    /\ capacity = cfg.bus_capacity
    /\ tpc = [t \in TThreads \cup {"main"} |->
                IF t = "main"
                THEN (IF ctor_raises(cfg.bus_capacity) THEN "raised" ELSE "start_w")
                ELSE "unstarted"]

\* mutant: the producer also writes what it puts into the accumulation store
M_cw_put_writes_store ==
    /\ tpc[W] = "loop" /\ pc[W] = "idle" /\ res[W] # BusClosedError
    /\ wpos < Len(q1out)
    /\ wpos' = wpos + 1
    /\ store' = Append(store, q1out[wpos + 1])
    /\ TCall(W, "put", FALSE)
    /\ put_pass(W, <<q1out[wpos + 1]>>, FALSE)
    /\ UNCHANGED <<mvars, xvars, topo, cfg, q1out, tpc, wbatch, mbatch, memory_hog, appends,
                   flushes, q2calls, q2in>>

\* centralized.py 34-35: the next triple of q1 is put on the bus
cw_put ==
    /\ tpc[W] = "loop" /\ pc[W] = "idle" /\ res[W] # BusClosedError
    /\ wpos < Len(q1out)
    /\ wpos' = wpos + 1
    /\ TCall(W, "put", FALSE)
    /\ put_pass(W, <<q1out[wpos + 1]>>, FALSE)
    /\ UNCHANGED <<mvars, xvars, topo, cfg, q1out, tpc, wbatch, mbatch, memory_hog, store, appends,
                   flushes, q2calls, q2in>>

\* centralized.py 36-37: finally: bus.close(), reached when q1 is exhausted,
\* when q1 raised, and when put raised
cw_close ==
    /\ tpc[W] = "loop" /\ pc[W] = "idle"
    /\ res[W] = BusClosedError \/ wpos = Len(q1out)
    /\ IF worker_finally_runs(res[W] = BusClosedError \/ cfg.q1_raises)
       THEN TCall(W, "close", FALSE) /\ close_pass(W, FALSE)
       ELSE UNCHANGED busvars
    /\ tpc' = [tpc EXCEPT ![W] =
                  IF res[W] = BusClosedError \/ cfg.q1_raises THEN "raised" ELSE "done"]
    /\ UNCHANGED <<mvars, xvars, topo, cfg, q1out, wpos, wbatch, mbatch, memory_hog, store, appends,
                   flushes, q2calls, q2in>>

\* mutant: a failed allocation ends the consumer thread
M_alloc_failure_raises(hog) == IF hog = "failed" THEN "raised" ELSE "drain"

\* centralized.py 45-47: except Exception: pass; whatever the allocation did,
\* the next statement is the drain loop
after_alloc(hog) == "drain"

\* centralized.py 41-46: the memory hog; a failed allocation is swallowed
cm_alloc ==
    /\ tpc[M] = "alloc"
    /\ IF cfg.heavy_q2_memory_mb > 0
       THEN memory_hog' \in {"held", "failed"}
       ELSE memory_hog' = "none"
    /\ tpc' = [tpc EXCEPT ![M] = after_alloc(memory_hog')]
    /\ UNCHANGED <<busvars, mvars, xvars, topo, cfg, q1out, wpos, wbatch, mbatch, store, appends,
                   flushes, q2calls, q2in>>

\* centralized.py 48-49: batch = bus.drain_all(); if not batch: ...
cm_drain ==
    /\ tpc[M] = "drain" /\ pc[M] = "idle"
    /\ TCall(M, "drain_all", FALSE)
    /\ drain_all_pass(M, FALSE)
    /\ mbatch' = q_items(queue)
    /\ tpc' = [tpc EXCEPT ![M] = IF q_items(queue) = <<>> THEN "get" ELSE "append"]
    /\ UNCHANGED <<mvars, xvars, topo, cfg, q1out, wpos, wbatch, memory_hog, store, appends,
                   flushes, q2calls, q2in>>

\* centralized.py 50: item = bus.get(timeout=max(0.001, master_poll_ms / 1000.0))
cm_get ==
    /\ tpc[M] = "get" /\ pc[M] = "idle"
    /\ TCall(M, "get", TRUE)
    /\ get_pass(M, TRUE, FALSE)
    /\ tpc' = [tpc EXCEPT ![M] = "got"]
    /\ UNCHANGED <<mvars, xvars, topo, cfg, q1out, wpos, wbatch, mbatch, memory_hog, store, appends,
                   flushes, q2calls, q2in>>

\* centralized.py 51-54: if item is None: break, else batch = [item]
cm_got ==
    /\ tpc[M] = "got" /\ pc[M] = "idle"
    /\ IF item_is_None(res[M])
       THEN tpc' = [tpc EXCEPT ![M] = "q2"] /\ UNCHANGED mbatch
       ELSE tpc' = [tpc EXCEPT ![M] = "append"] /\ mbatch' = res[M].val
    /\ UNCHANGED <<busvars, mvars, xvars, topo, cfg, q1out, wpos, wbatch, memory_hog, store, appends,
                   flushes, q2calls, q2in>>

\* centralized.py 57-62: one round of `for triple in batch`
cm_append ==
    /\ tpc[M] = "append"
    /\ store' = Append(store, Head(mbatch))
    /\ appends' = Append(appends, <<Head(mbatch)>>)
    /\ mbatch' = Tail(mbatch)
    /\ tpc' = [tpc EXCEPT ![M] = IF Tail(mbatch) = <<>> THEN "drain" ELSE "append"]
    /\ UNCHANGED <<busvars, mvars, xvars, topo, cfg, q1out, wpos, wbatch, memory_hog, flushes,
                   q2calls, q2in>>

CentralNext ==
    \/ main_start_w
    \/ main_start_m
    \/ main_join_w
    \/ main_join_m
    \/ cw_put
    \/ w_put_resume
    \/ cw_close
    \/ cm_alloc
    \/ cm_drain
    \/ cm_get
    \/ m_get_resume
    \/ m_get_timeout
    \/ cm_got
    \/ cm_append
    \/ m_append_raises
    \/ master_q2

SpecCentral == CentralInit /\ [][CentralNext]_vars

(* --------------------------- run_distributed --------------------------- *)
\* distributed.py 28: effective_capacity
Unlimited == 1000000000

\* mutant: only -1 stands for the unlimited bus
M_only_minus_one_unlimited(bus_capacity) ==
    IF bus_capacity = -1 THEN Unlimited ELSE bus_capacity

effective_capacity(bus_capacity) == IF bus_capacity > 0 THEN bus_capacity ELSE Unlimited

\* mutant: the batch is flushed one triple late
M_worker_batch_full_gt(b, worker_batch_size) == Len(b) > Max(1, worker_batch_size)

\* distributed.py 38: len(batch) >= max(1, worker_batch_size)
worker_batch_full(b, worker_batch_size) == Len(b) >= Max(1, worker_batch_size)

\* mutant: the local batch is not emptied after its flush
M_batch_not_cleared(b) == b

\* distributed.py 40: batch.clear()
batch_after_clear(b) == <<>>

\* mutant: the consumer drains once more when its batch is just full
M_master_wants_more_le(b, master_batch_size) == Len(b) <= Max(1, master_batch_size)

\* distributed.py 57: while len(batch) < max(1, master_batch_size)
master_wants_more(b, master_batch_size) == Len(b) < Max(1, master_batch_size)

\* distributed.py 29: bus = BoundedBus(effective_capacity)
DistInit ==
    /\ TInitCommon
    /\ topo = "distributed"
    /\ cfg \in [bus_capacity : -1..MaxCap, heavy_q2_memory_mb : {0},
                q1_raises : BOOLEAN, master_fails : {"none", "append", "q2"},
                worker_batch_size : 0..MaxBatch, master_batch_size : 0..MaxBatch]
    /\ capacity = effective_capacity(cfg.bus_capacity)
    /\ tpc = [t \in TThreads \cup {"main"} |->
                IF t = "main"
                THEN (IF ctor_raises(effective_capacity(cfg.bus_capacity))
                      THEN "raised" ELSE "start_w")
                ELSE "unstarted"]

\* distributed.py 36-38: the next triple of q1 joins the local batch
dw_next ==
    /\ tpc[W] = "loop"
    /\ wpos < Len(q1out)
    /\ wpos' = wpos + 1
    /\ wbatch' = Append(wbatch, q1out[wpos + 1])
    /\ tpc' = [tpc EXCEPT ![W] =
                  IF worker_batch_full(wbatch', cfg.worker_batch_size)
                  THEN "flush" ELSE "loop"]
    /\ UNCHANGED <<busvars, mvars, xvars, topo, cfg, q1out, mbatch, memory_hog, store, appends,
                   flushes, q2calls, q2in>>

\* distributed.py 39: bus.put_many(batch) for a full batch
dw_flush ==
    /\ tpc[W] = "flush" /\ pc[W] = "idle"
    /\ TCall(W, "put_many", FALSE)
    /\ put_many_pass(W, wbatch, FALSE)
    /\ flushes' = Append(flushes, wbatch)
    /\ tpc' = [tpc EXCEPT ![W] = "flushed"]
    /\ UNCHANGED <<mvars, xvars, topo, cfg, q1out, wpos, wbatch, mbatch, memory_hog, store, appends,
                   q2calls, q2in>>

\* distributed.py 40: batch.clear(), once put_many has returned
dw_clear ==
    /\ tpc[W] = "flushed" /\ pc[W] = "idle" /\ res[W] = Ok
    /\ wbatch' = batch_after_clear(wbatch)
    /\ tpc' = [tpc EXCEPT ![W] = "loop"]
    /\ UNCHANGED <<busvars, mvars, xvars, topo, cfg, q1out, wpos, mbatch, memory_hog, store, appends,
                   flushes, q2calls, q2in>>

\* distributed.py 41-42: q1 is exhausted and the remainder is flushed
dw_flush_rest ==
    /\ tpc[W] = "loop" /\ pc[W] = "idle"
    /\ wpos = Len(q1out) /\ ~cfg.q1_raises
    /\ wbatch # <<>>
    /\ TCall(W, "put_many", FALSE)
    /\ put_many_pass(W, wbatch, FALSE)
    /\ flushes' = Append(flushes, wbatch)
    /\ tpc' = [tpc EXCEPT ![W] = "rest_flushed"]
    /\ UNCHANGED <<mvars, xvars, topo, cfg, q1out, wpos, wbatch, mbatch, memory_hog, store, appends,
                   q2calls, q2in>>

\* distributed.py 43-44: finally: bus.close(), reached after the last flush,
\* when q1 raised (the remainder is then not flushed), and when put_many raised
dw_close ==
    /\ pc[W] = "idle"
    /\ \/ tpc[W] = "loop" /\ wpos = Len(q1out) /\ (cfg.q1_raises \/ wbatch = <<>>)
       \/ tpc[W] = "rest_flushed"
       \/ tpc[W] = "flushed" /\ res[W] = BusClosedError
    /\ IF worker_finally_runs(res[W] = BusClosedError
                                \/ (tpc[W] = "loop" /\ cfg.q1_raises))
       THEN TCall(W, "close", FALSE) /\ close_pass(W, FALSE)
       ELSE UNCHANGED busvars
    /\ tpc' = [tpc EXCEPT ![W] =
                  IF res[W] = BusClosedError \/ (tpc[W] = "loop" /\ cfg.q1_raises)
                  THEN "raised" ELSE "done"]
    /\ UNCHANGED <<mvars, xvars, topo, cfg, q1out, wpos, wbatch, mbatch, memory_hog, store, appends,
                   flushes, q2calls, q2in>>

\* distributed.py 50-52: batch = []; item = bus.get(timeout=...)
dm_get ==
    /\ tpc[M] = "get" /\ pc[M] = "idle"
    /\ TCall(M, "get", TRUE)
    /\ get_pass(M, TRUE, FALSE)
    /\ mbatch' = <<>>
    /\ tpc' = [tpc EXCEPT ![M] = "got"]
    /\ UNCHANGED <<mvars, xvars, topo, cfg, q1out, wpos, wbatch, memory_hog, store, appends,
                   flushes, q2calls, q2in>>

\* distributed.py 53-55: if item is None: break, else batch.append(item)
dm_got ==
    /\ tpc[M] = "got" /\ pc[M] = "idle"
    /\ IF item_is_None(res[M])
       THEN tpc' = [tpc EXCEPT ![M] = "q2"] /\ UNCHANGED mbatch
       ELSE tpc' = [tpc EXCEPT ![M] = "more"] /\ mbatch' = mbatch \o res[M].val
    /\ UNCHANGED <<busvars, mvars, xvars, topo, cfg, q1out, wpos, wbatch, memory_hog, store, appends,
                   flushes, q2calls, q2in>>

\* distributed.py 57-61: one round of the drain loop
dm_drain ==
    /\ tpc[M] = "more" /\ pc[M] = "idle"
    /\ master_wants_more(mbatch, cfg.master_batch_size)
    /\ TCall(M, "drain_all", FALSE)
    /\ drain_all_pass(M, FALSE)
    /\ IF q_items(queue) = <<>>
       THEN tpc' = [tpc EXCEPT ![M] = "append"] /\ UNCHANGED mbatch
       ELSE UNCHANGED tpc /\ mbatch' = mbatch \o q_items(queue)
    /\ UNCHANGED <<mvars, xvars, topo, cfg, q1out, wpos, wbatch, memory_hog, store, appends,
                   flushes, q2calls, q2in>>

\* distributed.py 62-64: append_triples_to_graph(obs_graph, batch)
dm_append ==
    /\ \/ tpc[M] = "append"
       \/ tpc[M] = "more" /\ ~master_wants_more(mbatch, cfg.master_batch_size)
    /\ store' = store \o mbatch
    /\ appends' = Append(appends, mbatch)
    /\ tpc' = [tpc EXCEPT ![M] = "get"]
    /\ UNCHANGED <<busvars, mvars, xvars, topo, cfg, q1out, wpos, wbatch, mbatch, memory_hog, flushes,
                   q2calls, q2in>>

DistNext ==
    \/ main_start_w
    \/ main_start_m
    \/ main_join_w
    \/ main_join_m
    \/ dw_next
    \/ dw_flush
    \/ w_put_resume
    \/ dw_clear
    \/ dw_flush_rest
    \/ dw_close
    \/ dm_get
    \/ m_get_resume
    \/ m_get_timeout
    \/ dm_got
    \/ dm_drain
    \/ dm_append
    \/ m_append_raises
    \/ master_q2

SpecDist == DistInit /\ [][DistNext]_vars

(* ----------------------- a run of either topology ---------------------- *)
RunInit == CentralInit \/ DistInit

RunNext ==
    \/ topo = "central" /\ CentralNext
    \/ topo = "distributed" /\ DistNext

SpecRun == RunInit /\ [][RunNext]_vars

\* what each thread of a run does
WorkerNext ==
    \/ topo = "central" /\ (cw_put \/ cw_close)
    \/ topo = "distributed" /\ (dw_next \/ dw_flush \/ dw_clear \/ dw_flush_rest \/ dw_close)
    \/ w_put_resume
MasterNext ==
    \/ topo = "central" /\ (cm_alloc \/ cm_drain \/ cm_get \/ cm_got \/ cm_append)
    \/ topo = "distributed" /\ (dm_get \/ dm_got \/ dm_drain \/ dm_append)
    \/ m_get_resume
    \/ m_append_raises
    \/ master_q2
MainNext == main_start_w \/ main_start_m \/ main_join_w \/ main_join_m

\* The scheduler lets every started thread that can take a step take one in
\* the end.  The expiry of a timeout (m_get_timeout) is not needed for that.
RunFairness == WF_vars(WorkerNext) /\ WF_vars(MasterNext) /\ WF_vars(MainNext)
FairRun == SpecRun /\ RunFairness

(* ------------- the bus from its construction: BoundedBus(n) ------------ *)
\* the fields of a bus that has not been constructed
Unset == "unset"

\* a caller is about to evaluate BoundedBus(capacity_triples)
CtorInit ==
    /\ MInit /\ XInit
    /\ capacity = Unset /\ queue = Unset /\ closed = Unset
    /\ pc = [t \in Threads |-> "idle"]
    /\ op = [t \in Threads |-> "none"]
    /\ arg = [t \in Threads |-> <<>>]
    /\ tmo = [t \in Threads |-> FALSE]
    /\ res = [t \in Threads |-> NoRes]
    /\ waited = [t \in Threads |-> FALSE]
    /\ enq = <<>> /\ deq = <<>>
    /\ nops = 0 /\ last = "none" /\ nclose = 0
    /\ topo = "bus"
    /\ cfg \in [capacity_triples : -1..MaxCap]
    /\ q1out = <<>>
    /\ tpc = [t \in {"main"} |-> "new"]
    /\ wpos = 0 /\ wbatch = <<>> /\ mbatch = <<>> /\ memory_hog = "none"
    /\ store = <<>> /\ appends = <<>> /\ flushes = <<>>
    /\ q2calls = 0 /\ q2in = <<>>

\* bus.py 16-22: __init__ raises before it sets any field, or sets
\* _capacity, an empty _queue and _closed = False
bus_init ==
    /\ tpc["main"] = "new"
    /\ IF ctor_raises(cfg.capacity_triples)
       THEN /\ tpc' = [tpc EXCEPT !["main"] = "ValueError"]
            /\ UNCHANGED <<capacity, queue, closed>>
       ELSE /\ capacity' = cfg.capacity_triples
            /\ queue' = <<>>
            /\ closed' = FALSE
            /\ tpc' = [tpc EXCEPT !["main"] = "constructed"]
    /\ UNCHANGED <<pc, op, arg, tmo, res, waited, enq, deq, nops, last, nclose>>
    /\ UNCHANGED <<mvars, xvars, topo, cfg, q1out, wpos, wbatch, mbatch, memory_hog, store,
                   appends, flushes, q2calls, q2in>>

\* the methods can be called on the bus that the constructor returned
bus_used == tpc["main"] = "constructed" /\ Next

CtorNext == bus_init \/ bus_used

SpecCtor == CtorInit /\ [][CtorNext]_vars

(* ------------------------- measure_run (utils.py) ---------------------- *)
MaxDepth == 2
MaxMem == 2

\* tracemalloc.start(): starts tracing with empty traces; a no-op when
\* memory is traced already
tracemalloc_start ==
    /\ tracing' = TRUE
    /\ traced_peak' = IF tracing THEN traced_peak ELSE 0

\* tracemalloc.stop(): stops tracing and clears the traces
tracemalloc_stop ==
    /\ tracing' = FALSE
    /\ traced_peak' = 0

\* tracemalloc.get_traced_memory()[1]; (0, 0) when memory is not traced
get_traced_peak == IF tracing THEN traced_peak ELSE 0

\* utils.py 16-18: `with measure_run() as m:` runs the generator up to its yield
mr_enter ==
    /\ Len(scopes) < MaxDepth
    /\ tracemalloc_start
    /\ scopes' = Append(scopes, 0)
    /\ UNCHANGED <<left, metrics>>
    /\ UNCHANGED <<busvars, tvars, xvars>>

\* the body of the with-block allocates one unit of memory (run.py 56-64:
\* the run and the list of its output)
mr_body_allocates ==
    /\ scopes # <<>>
    /\ traced_peak < MaxMem
    /\ \A i \in 1..Len(scopes) : scopes[i] < MaxMem
    /\ scopes' = [i \in 1..Len(scopes) |-> scopes[i] + 1]
    /\ traced_peak' = IF tracing THEN traced_peak + 1 ELSE traced_peak
    /\ UNCHANGED <<tracing, left, metrics>>
    /\ UNCHANGED <<busvars, tvars, xvars>>

\* utils.py 18-21: the body calls the function that measure_run yielded
\* (run.py 65: central_metrics = m())
mr_accessor ==
    /\ scopes # <<>>
    /\ metrics' = get_traced_peak
    /\ UNCHANGED <<tracing, traced_peak, scopes, left>>
    /\ UNCHANGED <<busvars, tvars, xvars>>

\* utils.py 22: the body ends normally, the generator is resumed after its
\* yield and runs tracemalloc.stop()
mr_exit ==
    /\ scopes # <<>>
    /\ tracemalloc_stop
    /\ scopes' = SubSeq(scopes, 1, Len(scopes) - 1)
    /\ left' = "normal"
    /\ UNCHANGED metrics
    /\ UNCHANGED <<busvars, tvars, xvars>>

\* utils.py 18-22: the body raises; the exception is thrown into the generator
\* at its yield, which is inside no try statement, so the generator ends there
\* and line 22 is not run
mr_exit_raising ==
    /\ scopes # <<>>
    /\ scopes' = SubSeq(scopes, 1, Len(scopes) - 1)
    /\ left' = "raised"
    /\ UNCHANGED <<tracing, traced_peak, metrics>>
    /\ UNCHANGED <<busvars, tvars, xvars>>

MeasureInit == Init /\ capacity = 1

MeasureNext ==
    \/ mr_enter
    \/ mr_body_allocates
    \/ mr_accessor
    \/ mr_exit
    \/ mr_exit_raising

SpecMeasure == MeasureInit /\ [][MeasureNext]_vars

(* --------------------- run_experiment (experiment.py) ------------------ *)
MaxJam == 2
MaxT == 1

\* python values: an iterator over a list, a tuple, a list
Iter(s) == [type |-> "iterator", items |-> s]
Tuple(s) == [type |-> "tuple", items |-> s]
List(s) == [type |-> "list", items |-> s]

\* list(v): the list of what iterating v yields; iterating a tuple yields its
\* elements
python_list(v) == List(v.items)
\* len(v)
python_len(v) == Len(v.items)

\* queries.py 139-145: stage-2 aggregation yields three triples for every
\* location whose total is over the threshold; j such locations
q2_output(j) == [i \in 1..(3 * j) |-> <<((i - 1) \div 3) + 1, ((i - 1) % 3) + 1>>]

\* centralized.py 74, distributed.py 76: return iter(q2_results), transfer_seconds
run_returns(q2_results, transfer_seconds) == Tuple(<<Iter(q2_results), transfer_seconds>>)

\* experiment.py 15, 22: with measure_run() as metrics_factory
exp_enter ==
    /\ xpc = "with"
    /\ tracemalloc_start
    /\ scopes' = Append(scopes, 0)
    /\ xpc' = "run"
    /\ UNCHANGED <<left, metrics>>
    /\ UNCHANGED <<busvars, tvars, xrun, rets, outs, run_metrics, printed>>

\* experiment.py 16, 23: the call run_centralized(...) / run_distributed(...)
\* returns; the run found j locations over the threshold, measured some
\* transfer time and allocated some memory
exp_run ==
    /\ xpc = "run"
    /\ \E j \in 0..MaxJam, x \in 0..MaxT :
          rets' = [rets EXCEPT ![xrun] = run_returns(q2_output(j), x)]
    /\ \E a \in 0..MaxMem :
          /\ scopes' = [i \in 1..Len(scopes) |-> scopes[i] + a]
          /\ traced_peak' = IF tracing THEN traced_peak + a ELSE traced_peak
    /\ xpc' = "list"
    /\ UNCHANGED <<tracing, left, metrics>>
    /\ UNCHANGED <<busvars, tvars, xrun, outs, run_metrics, printed>>

\* experiment.py 16, 23: centralized_out = list(<what the run returned>)
exp_list ==
    /\ xpc = "list"
    /\ outs' = [outs EXCEPT ![xrun] = python_list(rets[xrun])]
    /\ xpc' = "metrics"
    /\ UNCHANGED <<busvars, tvars, mvars, xrun, rets, run_metrics, printed>>

\* experiment.py 17, 24: centralized_metrics = metrics_factory()
exp_metrics ==
    /\ xpc = "metrics"
    /\ metrics' = get_traced_peak
    /\ run_metrics' = [run_metrics EXCEPT ![xrun] = get_traced_peak]
    /\ xpc' = "exit"
    /\ UNCHANGED <<tracing, traced_peak, scopes, left>>
    /\ UNCHANGED <<busvars, tvars, xrun, rets, outs, printed>>

\* experiment.py 17-18, 24-25: the with-block ends normally (utils.py 22)
exp_exit ==
    /\ xpc = "exit"
    /\ tracemalloc_stop
    /\ scopes' = SubSeq(scopes, 1, Len(scopes) - 1)
    /\ left' = "normal"
    /\ xpc' = "print"
    /\ UNCHANGED metrics
    /\ UNCHANGED <<busvars, tvars, xrun, rets, outs, run_metrics, printed>>

\* experiment.py 18, 25: print(f"...: ... peak_mem=..., out={len(centralized_out)} triples")
\* and on to the second topology (experiment.py 20-21)
exp_print ==
    /\ xpc = "print"
    /\ printed' = Append(printed, [line |-> xrun,
                                   peak_mem |-> run_metrics[xrun],
                                   out |-> python_len(outs[xrun])])
    /\ IF xrun = "Centralized"
       THEN xrun' = "Distributed" /\ xpc' = "with"
       ELSE xrun' = xrun /\ xpc' = "compare"
    /\ UNCHANGED <<busvars, tvars, mvars, rets, outs, run_metrics>>

\* experiment.py 29, 31: better_mem and its line (durations are not modelled)
exp_compare ==
    /\ xpc = "compare"
    /\ printed' = Append(printed,
          [line |-> "Lower memory",
           better |-> IF run_metrics["Distributed"] < run_metrics["Centralized"]
                      THEN "Distributed" ELSE "Centralized"])
    /\ xpc' = "end"
    /\ UNCHANGED <<busvars, tvars, mvars, xrun, rets, outs, run_metrics>>

ExpInit == Init /\ capacity = 1

ExpNext ==
    \/ exp_enter
    \/ exp_run
    \/ exp_list
    \/ exp_metrics
    \/ exp_exit
    \/ exp_print
    \/ exp_compare

SpecExperiment == ExpInit /\ [][ExpNext]_vars

(* --------- several producers and several consumers on one bus --------- *)
Producers == {"p1", "p2"}
Consumers == {"c1", "c2"}
MaxOwn == 2

\* the i-th triple of a producer, and whose and which one a triple is
ProducerNo(p) == IF p = "p1" THEN 1 ELSE 2
Own(p, i) == ProducerNo(p) * (MaxOwn + 1) + i
OwnerNo(x) == x \div (MaxOwn + 1)
Place(x) == x % (MaxOwn + 1)

\* how many of its triples a producer has got onto the bus
Sent(p) == Cardinality({i \in 1..Len(enq) : OwnerNo(enq[i]) = ProducerNo(p)})

MPMCInit ==
    /\ MInit /\ XInit
    /\ capacity \in 1..MaxCap
    /\ queue = <<>>
    /\ closed = FALSE
    /\ pc = [t \in Producers \cup Consumers |-> "idle"]
    /\ op = [t \in Producers \cup Consumers |-> "none"]
    /\ arg = [t \in Producers \cup Consumers |-> <<>>]
    /\ tmo = [t \in Producers \cup Consumers |-> FALSE]
    /\ res = [t \in Producers \cup Consumers |-> NoRes]
    /\ waited = [t \in Producers \cup Consumers |-> FALSE]
    /\ enq = <<>> /\ deq = <<>>
    /\ nops = 0 /\ last = "none" /\ nclose = 0
    /\ topo = "mpmc"
    /\ cfg = [bus_capacity |-> capacity]
    /\ q1out = <<>>
    /\ tpc = [t \in Producers \cup Consumers |-> "none"]
    /\ wpos = 0 /\ wbatch = <<>> /\ mbatch = <<>> /\ memory_hog = "none"
    /\ store = <<>> /\ appends = <<>> /\ flushes = <<>>
    /\ q2calls = 0 /\ q2in = <<>>

\* bus.py 28-35, 46-48: a producer sends its triples with one put_many, which
\* puts them one by one
mp_put(p) ==
    /\ pc[p] = "idle" /\ res[p] # BusClosedError
    /\ Sent(p) = 0
    /\ TCall(p, "put_many", FALSE)
    /\ put_many_pass(p, [i \in 1..MaxOwn |-> Own(p, i)], FALSE)
    /\ UNCHANGED <<tvars, mvars, xvars>>

mp_put_resume(p) == put_resume(p)

\* bus.py 72-75: a producer closes the bus
mp_close(p) ==
    /\ pc[p] = "idle" /\ ~closed
    /\ TCall(p, "close", FALSE)
    /\ close_pass(p, FALSE)
    /\ UNCHANGED <<tvars, mvars, xvars>>

\* bus.py 50-55, 59-63: a consumer gets a triple, waiting as long as it takes
mc_get(c) ==
    /\ pc[c] = "idle"
    /\ TCall(c, "get", FALSE)
    /\ get_pass(c, FALSE, FALSE)
    /\ UNCHANGED <<tvars, mvars, xvars>>

\* bus.py 65-70: a consumer takes everything that is queued
mc_drain_all(c) ==
    /\ pc[c] = "idle"
    /\ TCall(c, "drain_all", FALSE)
    /\ drain_all_pass(c, FALSE)
    /\ UNCHANGED <<tvars, mvars, xvars>>

mc_get_resume(c) == get_resume(c)

MPMCNext ==
    \/ \E p \in Producers :
          \/ mp_put(p)
          \/ mp_put_resume(p)
          \/ mp_close(p)
    \/ \E c \in Consumers :
          \/ mc_get(c)
          \/ mc_drain_all(c)
          \/ mc_get_resume(c)

SpecMPMC == MPMCInit /\ [][MPMCNext]_vars

(* ====================== properties of the bus ========================= *)

\* C1: while the bus is open, the number of queued triples never exceeds its
\* capacity, whatever interleaving of put, try_put, put_many, get, drain_all
\* and close produced the state.
C1_CapacityInvariant == ~closed => Len(queue) <= capacity

\* a full, open bus on which a put is blocked
C1_Witness ==
    /\ ~closed
    /\ Len(queue) = capacity
    /\ \E t \in Threads : pc[t] = "put_wait"

\* C2: the triples dequeued by get and drain_all, taken together in the order
\* of their removal, are a prefix of the triples in the order of their
\* enqueueing by put, try_put and put_many; what is still queued is the rest.
C2_Fifo ==
    /\ Len(deq) <= Len(enq)
    /\ deq = SubSeq(enq, 1, Len(deq))
    /\ queue = SubSeq(enq, Len(deq) + 1, Len(enq))

\* a get and a drain_all have both returned triples
C2_Witness ==
    \E t, u \in Threads :
        /\ op[t] = "get" /\ res[t].kind = "item"
        /\ op[u] = "drain_all" /\ res[u].kind = "list" /\ res[u].val # <<>>
        /\ Len(deq) >= 2

\* C3: in a centralized run, when the consumer has left its loop (stage-2
\* aggregation is about to start or has run), it has made exactly as many
\* appends as stage-1 aggregation yielded triples, and each of those triples
\* is in the store exactly once; stage-2 aggregation sees that store.
C3_NoLossNoDup ==
    tpc[M] \in {"q2", "done"} =>
        /\ Len(appends) = Len(q1out)
        /\ Len(store) = Len(q1out)
        /\ \A i \in 1..Len(q1out) :
              Cardinality({j \in 1..Len(store) : store[j] = q1out[i]}) = 1
        /\ q2calls > 0 => q2in = store

\* stage-2 aggregation has run over MaxN triples that went through a bus of
\* capacity 1
C3_Witness ==
    /\ topo = "central"
    /\ q2calls = 1
    /\ capacity = 1
    /\ Len(q1out) = MaxN
    /\ Len(q2in) = MaxN

RECURSIVE SumLen(_)
SumLen(ss) == IF ss = <<>> THEN 0 ELSE Len(Head(ss)) + SumLen(Tail(ss))

\* C4: in a distributed run in which stage-1 aggregation ends normally, when
\* the consumer has left its loop the sizes of the batches it appended sum to
\* the number of triples stage-1 yielded, and any two triples of one put_many
\* call of the producer are in the store in the order they had in that call.
C4_BatchDraining ==
    (tpc[M] \in {"q2", "done"} /\ ~cfg.q1_raises) =>
        /\ SumLen(appends) = Len(q1out)
        /\ \A k \in 1..Len(flushes) :
              \A a, b \in 1..Len(flushes[k]) :
                 a < b =>
                    \E x, y \in 1..Len(store) :
                        x < y /\ store[x] = flushes[k][a] /\ store[y] = flushes[k][b]

\* a run over MaxN triples with a flush of two triples and two or more appends
C4_Witness ==
    /\ topo = "distributed"
    /\ tpc[M] = "done" /\ ~cfg.q1_raises
    /\ Len(q1out) = MaxN
    /\ \E k \in 1..Len(flushes) : Len(flushes[k]) >= 2
    /\ Len(appends) >= 2

\* C5: backpressure.  A triple is enqueued only in a step taken from an open
\* bus with free space; a put that finds the bus open and full enters the wait
\* and leaves the queue alone; a thread whose put is pending has no result;
\* and with capacity 1 a second triple is enqueued only after the first one
\* has been dequeued.
C5_Backpressure ==
    /\ [][Len(enq') > Len(enq) => (~closed /\ Len(queue) < capacity)]_vars
    /\ [][\A t \in Threads :
            (/\ \/ (last' = t /\ nops' # nops /\ op'[t] \in {"put"})
                \/ (pc[t] \in {"put", "put_woken"} /\ pc'[t] # pc[t])
             /\ ~closed
             /\ Len(queue) >= capacity)
            => (pc'[t] = "put_wait" /\ queue' = queue /\ res'[t] = NoRes)]_vars
    /\ [](\A t \in Threads : pc[t] \in {"put_wait", "put_woken"} => res[t] = NoRes)
    /\ []((capacity = 1 /\ Len(enq) >= 2) => Len(deq) >= 1)

\* capacity 1: a put has waited and has then enqueued the second triple
C5_Witness ==
    \E t \in Threads :
        /\ capacity = 1
        /\ op[t] = "put" /\ waited[t] /\ res[t] = Ok
        /\ Len(enq) >= 2

\* C6: a get with a timeout whose wait expired on an open, empty bus returns
\* "empty" and leaves the bus open.
C6_GetTimeoutReturnsEmpty ==
    [][\A t \in Threads :
        (pc[t] = "get_expired" /\ ~closed /\ queue = <<>> /\ pc'[t] # pc[t])
        => (pc'[t] = "idle" /\ res'[t] = Empty /\ ~closed')]_vars

\* C7: once the bus is closed no get is left inside the wait, and a get that
\* was woken and finds the bus closed and empty returns "empty" without
\* anything having been enqueued.
C7_CloseWakesGet ==
    /\ [](closed => \A t \in Threads : pc[t] # "get_wait")
    /\ [][\A t \in Threads :
            (pc[t] \in {"get_woken", "get_expired"} /\ closed /\ queue = <<>>
                /\ pc'[t] # pc[t])
            => (pc'[t] = "idle" /\ res'[t] = Empty /\ enq' = enq)]_vars

\* Under FairSpec the woken get does take that step: a get pending on a closed,
\* empty bus leads to its return of "empty".
GetReturnsAfterClose ==
    \A t \in Threads :
        (pc[t] \in {"get_wait", "get_woken", "get_expired"} /\ closed /\ queue = <<>>)
        ~> (pc[t] = "idle" /\ res[t] = Empty)

\* a get without timeout has waited and returned "empty" on a closed bus onto
\* which nothing was ever enqueued
C7_Witness ==
    \E t \in Threads :
        /\ op[t] = "get" /\ ~tmo[t] /\ waited[t]
        /\ pc[t] = "idle" /\ res[t] = Empty
        /\ closed /\ enq = <<>>

\* C8: once the bus is closed no put is left inside the wait, and a put that
\* was woken and finds the bus closed fails with the closed-bus error and
\* enqueues nothing, whether or not the queue has space by then.
C8_CloseWakesPut ==
    /\ [](closed => \A t \in Threads : pc[t] # "put_wait")
    /\ [][\A t \in Threads :
            (pc[t] = "put_woken" /\ closed /\ pc'[t] # pc[t])
            => (pc'[t] = "idle" /\ res'[t] = BusClosedError
                    /\ queue' = queue /\ enq' = enq)]_vars

\* Under FairSpec the woken put does take that step: a put pending on a closed
\* bus leads to its failure with the closed-bus error.
PutFailsAfterClose ==
    \A t \in Threads :
        (pc[t] \in {"put_wait", "put_woken"} /\ closed)
        ~> (pc[t] = "idle" /\ res[t] = BusClosedError)

\* a put that waited failed with the closed-bus error although the queue had
\* space again, and its triple is in neither the queue nor the history
C8_Witness ==
    \E t \in Threads :
        /\ waited[t] /\ pc[t] = "idle" /\ res[t] = BusClosedError
        /\ closed /\ Len(queue) < capacity
        /\ arg[t] # <<>>
        /\ \A i \in 1..Len(enq) : enq[i] # Head(arg[t])

\* C9: close() always returns normally, leaves the bus closed, and no step
\* ever reopens a closed bus.
C9_CloseIdempotentMonotonic ==
    /\ [][closed => closed']_vars
    /\ [](\A t \in Threads :
            (op[t] = "close" /\ pc[t] = "idle") => (res[t] = Ok /\ closed))
    /\ [](nclose >= 1 => closed)

\* close() has completed twice
C9_Witness ==
    /\ nclose >= 2
    /\ closed
    /\ \E t, u \in Threads : t # u /\ op[t] = "close" /\ op[u] = "close"

\* C10: a try_put is over in the step that makes the call: it returns false
\* and leaves the queue alone when the bus is closed or holds capacity
\* triples, and otherwise appends its triple at the tail and returns true.
C10_TryPut ==
    [][\A t \in Threads :
        (last' = t /\ nops' # nops /\ op'[t] = "try_put")
        => /\ pc'[t] = "idle"
           /\ IF closed \/ Len(queue) >= capacity
              THEN res'[t] = BoolRes(FALSE) /\ queue' = queue
              ELSE res'[t] = BoolRes(TRUE) /\ queue' = Append(queue, Tag(nops, 1))]_vars

\* a try_put was refused by a closed bus that had free space
C10_Witness ==
    \E t \in Threads :
        /\ last = t /\ op[t] = "try_put" /\ res[t] = BoolRes(FALSE)
        /\ closed /\ Len(queue) < capacity

\* the threads whose latest call is a try_put that returned true
TryPutWinners == {t \in Threads : op[t] = "try_put" /\ res[t] = BoolRes(TRUE)}

\* the set of the elements of a sequence
Range(s) == {s[i] : i \in 1..Len(s)}

\* C11: try_put calls racing for the free slots.  A try_put returns true only
\* from a state that has a free slot and it takes exactly one; on a full bus
\* it returns false; and as long as nothing has been dequeued the try_puts
\* that returned true are no more than the capacity left over by the
\* triples that others enqueued.
C11_TryPutWithinRemaining ==
    /\ [][\A t \in Threads :
            (last' = t /\ nops' # nops /\ op'[t] = "try_put")
            => /\ res'[t] = BoolRes(TRUE) =>
                    (capacity - Len(queue) >= 1 /\ Len(queue') = Len(queue) + 1)
               /\ Len(queue) >= capacity => res'[t] = BoolRes(FALSE)]_vars
    /\ [](deq = <<>> =>
            Cardinality(TryPutWinners)
                <= capacity - (Len(queue) - Cardinality(TryPutWinners)))

\* three try_puts raced for the two slots of an open bus: two won, one lost
C11_Witness ==
    /\ ~closed /\ deq = <<>>
    /\ capacity = 2
    /\ \A t \in Threads : op[t] = "try_put"
    /\ Cardinality(TryPutWinners) = 2

\* C12: drain_all is over in the step that makes the call: it returns the
\* whole queue of that moment in queue order (the empty list when there is
\* none), leaves the queue empty, and no thread is ever found inside a
\* drain_all.
C12_DrainAllAtomic ==
    /\ [][\A t \in Threads :
            (last' = t /\ nops' # nops /\ op'[t] = "drain_all")
            => /\ pc'[t] = "idle"
               /\ res'[t] = ListRes(queue)
               /\ queue' = <<>>
               /\ deq' = deq \o queue]_vars
    /\ [](\A t \in Threads : op[t] = "drain_all" => pc[t] = "idle")

\* a drain_all returned two triples at once and left the queue empty
C12_Witness ==
    \E t \in Threads :
        /\ last = t /\ op[t] = "drain_all"
        /\ Len(res[t].val) = 2
        /\ queue = <<>>

\* of a put_many that failed: the call it is and the place of its first
\* triple that was not put
ManyCall(t) == Head(arg[t]) \div (MaxMany + 1)
ManyPlace(t) == Head(arg[t]) % (MaxMany + 1)

\* C13: put_many puts its triples one by one.  A put_many whose next put
\* finds the bus closed fails with the closed-bus error; the triples it had
\* put before are in the enqueue history, in their order, and none of the
\* triples is that it had not put yet.
C13_PutManyPartial ==
    /\ [][\A t \in Threads :
            (op[t] = "put_many" /\ pc[t] \in {"put", "put_woken"} /\ closed
                /\ pc'[t] # pc[t])
            => (pc'[t] = "idle" /\ res'[t] = BusClosedError /\ enq' = enq)]_vars
    /\ [](\A t \in Threads :
            (op[t] = "put_many" /\ pc[t] = "idle" /\ res[t] = BusClosedError)
            => /\ arg[t] # <<>>
               /\ \A x \in Range(arg[t]) : x \notin Range(enq)
               /\ \A i \in 1..(ManyPlace(t) - 1) :
                     /\ Tag(ManyCall(t), i) \in Range(enq)
                     /\ \A j \in 1..(i - 1) :
                           \E a, b \in 1..Len(enq) :
                              /\ a < b
                              /\ enq[a] = Tag(ManyCall(t), j)
                              /\ enq[b] = Tag(ManyCall(t), i))

\* a put_many failed after its first triple: that triple has been enqueued
\* and its second one has not
C13_Witness ==
    \E t \in Threads :
        /\ op[t] = "put_many" /\ pc[t] = "idle" /\ res[t] = BusClosedError
        /\ ManyPlace(t) = 2
        /\ Tag(ManyCall(t), 1) \in Range(enq)

(* ==================== properties of the two runs ===================== *)
\* the thread's function has returned or raised
Terminated(t) == tpc[t] \in {"done", "raised"}

\* C14: in both topologies stage-2 aggregation is invoked at most once, and
\* exactly once when the consumer's function has returned; the step that
\* invokes it is the consumer's and is taken when the bus is closed and empty
\* and the store holds every triple that was enqueued; and once it has been
\* invoked nothing is appended to the store or enqueued any more.
C14_Stage2Once ==
    /\ [](q2calls <= 1)
    /\ [](tpc[M] = "done" => q2calls = 1)
    /\ [](tpc[M] \in {"unstarted", "alloc", "drain", "get", "got", "more", "append"}
            => q2calls = 0)
    /\ [][q2calls' # q2calls
            => /\ tpc[M] = "q2" /\ tpc'[M] \in {"done", "raised"}
               /\ closed /\ queue = <<>>
               /\ store = enq
               /\ q2in' = store]_vars
    /\ [][q2calls > 0 => (store' = store /\ appends' = appends /\ enq' = enq)]_vars

\* a distributed and a centralized run each ended after one stage-2
\* aggregation over MaxN triples
C14_Witness ==
    /\ tpc["main"] = "returned" /\ tpc[M] = "done"
    /\ q2calls = 1
    /\ Len(q2in) = MaxN
    /\ topo = "distributed"

\* C15: the producer's function ends only with the bus closed, whether stage-1
\* aggregation was exhausted, raised, or a put raised; and, the threads being
\* scheduled fairly, once both threads have been started the consumer leaves
\* its loop.
C15_ProducerAlwaysCloses ==
    /\ [](Terminated(W) => closed)
    /\ [][(tpc[W] # tpc'[W] /\ Terminated(W)') => nclose' = nclose + 1]_vars
    /\ (tpc["main"] = "join_w") ~> (tpc[M] \in {"q2", "done", "raised"})

\* stage-1 aggregation raised after two triples, the producer closed the bus
\* and the consumer has left its loop
C15_Witness ==
    /\ cfg.q1_raises /\ Len(q1out) = 2
    /\ tpc[W] = "raised" /\ closed
    /\ tpc[M] = "done"

\* C16: when the consumer's function has raised, the bus is closed.
C16_ConsumerFailureClosesBus == tpc[M] = "raised" => closed

\* C17: a run returns normally only if neither stage-1 aggregation in the
\* producer nor stage-2 aggregation or the append in the consumer has raised.
C17_FailurePropagates ==
    tpc["main"] = "returned" => (tpc[W] # "raised" /\ tpc[M] # "raised")

\* C19: a run has the producer and the consumer as its threads, none is
\* running before the run starts it, the run returns only when both have
\* terminated, and after the return nothing changes any more.
C19_ReturnsAfterBothThreads ==
    /\ [](DOMAIN tpc = {W, M, "main"})
    /\ [](tpc["main"] \in {"start_w", "raised"}
            => (tpc[W] = "unstarted" /\ tpc[M] = "unstarted"))
    /\ [](tpc["main"] = "start_m" => tpc[M] = "unstarted")
    /\ [](tpc["main"] \in {"join_w", "join_m", "returned"}
            => (tpc[W] # "unstarted" /\ tpc[M] # "unstarted"))
    /\ [](tpc["main"] = "returned"
            => (Terminated(W) /\ Terminated(M)))
    /\ [][tpc["main"] # "returned"]_vars

\* a centralized run has returned after both threads were done with MaxN
\* triples
C19_Witness ==
    /\ topo = "central"
    /\ tpc["main"] = "returned"
    /\ tpc[W] = "done" /\ tpc[M] = "done"
    /\ Len(store) = MaxN

\* C18: BoundedBus(n) with n <= 0 raises the invalid-capacity error and leaves
\* no bus behind (no field is set, no method is ever called); with n >= 1 it
\* returns a bus with capacity n and an empty, open queue; and the capacity of
\* a constructed bus never changes, whatever is called on it.
C18_Construction ==
    /\ [](tpc["main"] = "ValueError"
            => /\ cfg.capacity_triples <= 0
               /\ capacity = Unset /\ queue = Unset /\ closed = Unset
               /\ nops = 0)
    /\ [](tpc["main"] = "constructed"
            => (cfg.capacity_triples >= 1 /\ capacity = cfg.capacity_triples))
    /\ [][(tpc["main"] = "new" /\ tpc'["main"] # "new")
            => IF cfg.capacity_triples <= 0
               THEN tpc'["main"] = "ValueError"
               ELSE /\ tpc'["main"] = "constructed"
                    /\ queue' = <<>> /\ closed' = FALSE
                    /\ capacity' = cfg.capacity_triples]_vars
    /\ [][tpc["main"] = "constructed" => capacity' = capacity]_vars

\* a bus constructed with capacity 1 has been filled, emptied and closed, and
\* its capacity is still 1
C18_Witness ==
    /\ tpc["main"] = "constructed"
    /\ cfg.capacity_triples = 1 /\ capacity = 1
    /\ Len(enq) >= 1 /\ Len(deq) >= 1
    /\ closed = TRUE

\* C20: once the outermost measure_run scope has been left, normally or by
\* an exception of its body, memory is not traced any more.
C20_TracingStopsOnExit == (scopes = <<>> /\ left # "none") => ~tracing

\* C21: while a measure_run scope is open memory is traced, whatever scopes
\* were opened and left inside it, and what the accessor would report is no
\* less than what the body of the outermost open scope has allocated.
C21_NestedScopesIndependent ==
    scopes # <<>> => (tracing /\ get_traced_peak >= scopes[1])

\* C22: with two producers and two consumers on one bus: the queue never
\* exceeds the capacity, what was dequeued is a prefix of what was enqueued
\* and the queue is the rest, the triples of one producer are dequeued in the
\* order in which it sent them, no triple is dequeued twice, and a step that
\* dequeues hands what it removed to one consumer and to nobody else.
C22_ManyProducersConsumers ==
    /\ [](Len(queue) <= capacity)
    /\ [](deq \o queue = enq)
    /\ [](\A a, b \in 1..Len(deq) :
            (a < b /\ OwnerNo(deq[a]) = OwnerNo(deq[b]))
                => Place(deq[a]) < Place(deq[b]))
    /\ [](\A a, b \in 1..Len(deq) : a # b => deq[a] # deq[b])
    /\ [][deq' # deq =>
            \E c \in Consumers :
                /\ deq' = deq \o res'[c].val
                /\ queue = res'[c].val \o queue'
                /\ res'[c].kind \in {"item", "list"}
                /\ \A u \in (Producers \cup Consumers) \ {c} : res'[u] = res[u]]_vars

\* all triples of both producers went through the bus, not one producer
\* after the other, and each consumer took some of them
C22_Witness ==
    /\ Len(deq) = 2 * MaxOwn
    /\ OwnerNo(deq[1]) # OwnerNo(deq[2])
    /\ \A c \in Consumers : res[c].kind \in {"item", "list"} /\ res[c].val # <<>>

NoFailure == ~cfg.q1_raises /\ cfg.master_fails = "none"

\* C25: in a run of either topology the producer is never waiting for space
\* while the consumer is waiting for a triple; and, the threads being
\* scheduled fairly, a run with a bus (capacity >= 1) in which no collaborator
\* raises returns.
C25_RunTerminates ==
    /\ [](~(pc[W] = "put_wait" /\ pc[M] = "get_wait"))
    /\ [](tpc["main"] # "raised" => capacity >= 1)
    /\ (tpc["main"] = "start_w" /\ NoFailure)
          ~> (tpc["main"] = "returned" /\ Terminated(W) /\ Terminated(M))

\* a distributed run through a bus of capacity 1, with batches of two on
\* both sides, has returned with all MaxN triples in the store
C25_Witness ==
    /\ topo = "distributed" /\ NoFailure
    /\ capacity = 1
    /\ cfg.worker_batch_size = 2 /\ cfg.master_batch_size = 2
    /\ tpc["main"] = "returned"
    /\ Len(store) = MaxN

\* the consumer is gone for good, the bus is open and the producer is inside
\* the wait of a put
ProducerStuck == tpc[M] = "raised" /\ ~closed /\ pc[W] = "put_wait"

\* C26: a put has no timeout.  While the bus is open and full, no step lets a
\* producer that is inside put return; and once the consumer is gone with the
\* bus open and the producer waiting in put, no step is possible any more:
\* the producer stays in its put and the run stays in its join.
C26_PutNeverTimesOut ==
    /\ [][(pc[W] \in {"put_wait", "put_woken"} /\ ~closed /\ Len(queue) >= capacity)
            => (pc'[W] \in {"put_wait", "put_woken"} /\ res'[W] = NoRes
                /\ tpc'[W] = tpc[W] /\ enq' = enq)]_vars
    /\ [][~ProducerStuck]_vars
    /\ [](ProducerStuck => (tpc["main"] = "join_w" /\ Len(queue) >= capacity))

\* the consumer raised in an append while the producer was blocked on the
\* full bus
C26_Witness ==
    /\ ProducerStuck
    /\ capacity = 1 /\ Len(queue) = 1
    /\ Len(deq) = 1 /\ store = <<>>
    /\ arg[W] # <<>>

\* C27: no wake-up is lost.  No thread is inside the wait of a put unless the
\* bus is open and full, or inside the wait of a get unless the bus is open
\* and empty; and a step that changes the queue or the closed flag leaves
\* no thread inside a wait, however many were waiting.
C27_NoLostWakeup ==
    /\ [](\A t \in Threads :
            pc[t] = "put_wait" => (~closed /\ Len(queue) >= capacity))
    /\ [](\A t \in Threads :
            pc[t] = "get_wait" => (~closed /\ queue = <<>>))
    /\ [][(queue' # queue \/ closed' # closed)
            => \A t \in Threads : pc'[t] \notin {"put_wait", "get_wait"}]_vars

\* two threads that were waiting in get have both been woken by one put
C27_Witness ==
    /\ Cardinality({t \in Threads : pc[t] = "get_woken" /\ waited[t]}) = 2
    /\ Len(queue) = 1 /\ ~closed

\* C27, under fair scheduling: a blocked put does not stay blocked on an open
\* bus with free space, nor a blocked get on a bus that has a triple.
BlockedCallsGoOn ==
    /\ (\E t \in Threads : pc[t] \in {"put_wait", "put_woken"}
                           /\ ~closed /\ Len(queue) < capacity)
          ~> ~(\E t \in Threads : pc[t] \in {"put_wait", "put_woken"}
                                 /\ ~closed /\ Len(queue) < capacity)
    /\ (\E t \in Threads : pc[t] \in {"get_wait", "get_woken"} /\ queue # <<>>)
          ~> ~(\E t \in Threads : pc[t] \in {"get_wait", "get_woken"} /\ queue # <<>>)

\* C28: from a closed bus no step enqueues or reopens; the queue only loses
\* triples at its front, to the dequeue history; and a get or drain_all
\* called on a closed bus that still holds triples returns the oldest one,
\* respectively all of them in order.
C28_ClosedBusOnlyShrinks ==
    /\ [][closed =>
            /\ closed' /\ enq' = enq
            /\ \E k \in 0..Len(queue) :
                  /\ queue' = SubSeq(queue, k + 1, Len(queue))
                  /\ deq' = deq \o SubSeq(queue, 1, k)]_vars
    /\ [][\A t \in Threads :
            (last' = t /\ nops' # nops /\ closed /\ queue # <<>>)
            => /\ op'[t] = "get" =>
                    (pc'[t] = "idle" /\ res'[t] = ItemRes(Head(queue))
                     /\ queue' = Tail(queue))
               /\ op'[t] = "drain_all" =>
                    (res'[t] = ListRes(queue) /\ queue' = <<>>)
               /\ op'[t] \in {"put", "try_put", "put_many"} => queue' = queue]_vars

\* two triples were queued when the bus was closed; a get called after the
\* close has returned the first of them and the second one is still queued
C28_Witness ==
    /\ Len(enq) = 2
    /\ \E t, u \in Threads :
          /\ closed /\ op[u] = "close"
          /\ last = t /\ op[t] = "get" /\ res[t] = ItemRes(enq[1])
          /\ queue = <<enq[2]>>

\* C29: run_distributed never fails to construct its bus: a bus_capacity <= 0
\* gives capacity 1,000,000,000 and a positive one is used as it is; a
\* run_centralized with bus_capacity <= 0 raises the invalid-capacity error
\* with no thread started and nothing done, and with a positive one it uses
\* that capacity.
C29_CapacityMapping ==
    /\ [](topo = "distributed" =>
            /\ tpc["main"] # "raised"
            /\ capacity = IF cfg.bus_capacity > 0 THEN cfg.bus_capacity ELSE 1000000000)
    /\ []((topo = "central" /\ cfg.bus_capacity <= 0) =>
            /\ tpc["main"] = "raised"
            /\ tpc[W] = "unstarted" /\ tpc[M] = "unstarted"
            /\ enq = <<>> /\ nclose = 0 /\ q2calls = 0)
    /\ []((topo = "central" /\ cfg.bus_capacity >= 1) =>
            (tpc["main"] # "raised" /\ capacity = cfg.bus_capacity))

\* a distributed run with bus_capacity = 0 has returned after MaxN triples
\* went through its bus of capacity 1,000,000,000
C29_Witness ==
    /\ topo = "distributed" /\ cfg.bus_capacity = 0
    /\ capacity = 1000000000
    /\ tpc["main"] = "returned"
    /\ Len(store) = MaxN

\* the batch size the producer works with, and the k-th batch of that size
\* of the stage-1 output
BatchSize == IF cfg.worker_batch_size >= 1 THEN cfg.worker_batch_size ELSE 1
Chunk(k) ==
    SubSeq(q1out, (k - 1) * BatchSize + 1,
           IF k * BatchSize <= Len(q1out) THEN k * BatchSize ELSE Len(q1out))

\* C30: the k-th put_many of the distributed producer carries the k-th batch
\* of B = max(1, worker_batch_size) triples of the stage-1 output; every
\* batch but a last remainder has exactly B triples and none is empty; a
\* producer that ended normally has flushed floor(N / B) full batches and,
\* if N mod B > 0, one more with the remainder; and the bus is closed when no
\* put_many is pending, after which nothing is flushed.
C30_ProducerBatching ==
    /\ [](\A k \in 1..Len(flushes) :
            /\ flushes[k] # <<>>
            /\ flushes[k] = Chunk(k)
            /\ \/ Len(flushes[k]) = BatchSize
               \/ /\ k = Len(flushes) /\ wpos = Len(q1out)
                  /\ Len(flushes[k]) = Len(q1out) % BatchSize)
    /\ [](tpc[W] = "done" =>
            Len(flushes) = (Len(q1out) \div BatchSize)
                            + (IF Len(q1out) % BatchSize > 0 THEN 1 ELSE 0))
    /\ [][nclose' # nclose => (pc[W] = "idle" /\ arg[W] = <<>> /\ flushes' = flushes)]_vars
    /\ [][closed => flushes' = flushes]_vars

\* MaxN triples with worker_batch_size = 2: one full batch and the remainder
C30_Witness ==
    /\ tpc[W] = "done"
    /\ cfg.worker_batch_size = 2 /\ Len(q1out) = 3
    /\ flushes = <<<<1, 2>>, <<3>>>>

\* what the consumer of run_distributed aims at: max(1, master_batch_size)
MasterBatchSize == IF cfg.master_batch_size >= 1 THEN cfg.master_batch_size ELSE 1

\* C31, as stated: every batch the distributed consumer appends has at least
\* one triple and at most max(1, master_batch_size) triples.
C31_BatchWithinSize ==
    \A k \in 1..Len(appends) :
        Len(appends[k]) >= 1 /\ Len(appends[k]) <= MasterBatchSize

\* C31, amended: every batch the distributed consumer appends has at least
\* one triple; it calls drain_all for a batch only while the batch holds
\* fewer than max(1, master_batch_size) triples, and appends the batch as soon
\* as it holds that many or a drain_all has returned nothing; the last
\* drain_all adds everything that is queued, so a batch holds fewer than
\* max(1, master_batch_size) plus the capacity of the bus, not at most
\* master_batch_size.
C31_BatchStopsAtSize ==
    /\ [](\A k \in 1..Len(appends) :
            /\ Len(appends[k]) >= 1
            /\ Len(appends[k]) < MasterBatchSize + capacity)
    /\ [][(tpc[M] = "more" /\ deq' # deq)
            => (Len(mbatch) >= 1 /\ Len(mbatch) < MasterBatchSize
                /\ mbatch' = mbatch \o queue /\ queue' = <<>>)]_vars
    /\ [][appends' # appends
            => /\ appends' = Append(appends, mbatch)
               /\ \/ Len(mbatch) >= MasterBatchSize
                  \/ (op[M] = "drain_all" /\ res[M] = ListRes(<<>>))]_vars
    /\ [](tpc[M] = "more" /\ Len(mbatch) >= MasterBatchSize
            => (op[M] \in {"get", "drain_all"} /\ pc[M] = "idle"))

\* with master_batch_size = 2 the consumer has appended a batch of three: one
\* triple from get and two from the drain_all after it
C31_Witness ==
    /\ cfg.master_batch_size = 2
    /\ \E k \in 1..Len(appends) : Len(appends[k]) = 3
    /\ Len(deq) = 3

RECURSIVE Concat(_)
Concat(ss) == IF ss = <<>> THEN <<>> ELSE Head(ss) \o Concat(Tail(ss))

\* C32: in both topologies, whatever the interleaving, the store is at every
\* moment the first triples that stage-1 aggregation emitted, in the order of
\* their emission, and it is the concatenation of the batches the consumer
\* appended; when the consumer has left its loop in a run without failure it
\* is the whole stage-1 output.
C32_EndToEndOrder ==
    /\ Len(store) <= Len(q1out)
    /\ store = SubSeq(q1out, 1, Len(store))
    /\ store = Concat(appends)
    /\ (tpc[M] \in {"q2", "done"} /\ NoFailure) => store = q1out

\* a distributed run whose producer flushed a batch of two and whose
\* consumer appended several batches has all MaxN triples in order
C32_Witness ==
    /\ topo = "distributed" /\ NoFailure
    /\ tpc[M] = "done"
    /\ store = q1out /\ Len(store) = MaxN
    /\ Len(appends) >= 2
    /\ \E k \in 1..Len(flushes) : Len(flushes[k]) = 2

(* C33: Single-writer store.  Within a topology run only steps of the consumer
   thread change the accumulation store (and the batch, the record of appended
   batches, the memory block and the stage-2 call); a step of the producer
   thread changes none of them and dequeues nothing; a step of the consumer
   changes nothing the producer writes (its position in the stage-1 output,
   its batch, the flushed batches, the closed flag, what was enqueued); the
   main thread touches neither the queue nor the store.  So of the data of a
   run, the bus queue is the only variable that both threads change. *)
WorkerStep == WorkerNext
MasterStep == MasterNext \/ m_get_timeout
OwnSlots(t) == <<tpc[t], op[t], arg[t], tmo[t], res[t], waited[t]>>
C33_SingleWriterStore ==
    [][ /\ (store' # store) => (MasterStep /\ ~WorkerStep /\ ~MainNext)
        /\ WorkerStep =>
              /\ UNCHANGED <<store, appends, mbatch, memory_hog, q2calls, q2in, deq>>
              /\ OwnSlots(M)' = OwnSlots(M)
        /\ MasterStep =>
              /\ UNCHANGED <<wpos, wbatch, flushes, closed, enq, nclose>>
              /\ OwnSlots(W)' = OwnSlots(W)
        /\ MainNext =>
              /\ UNCHANGED <<busvars, store, appends, mbatch, memory_hog, q2calls, q2in,
                             wpos, wbatch, flushes>>
        /\ (queue' # queue) => (WorkerStep \/ MasterStep) ]_vars
\* both threads have changed the queue, the consumer has written the store
\* and the producer is still in its loop
C33_Witness ==
    /\ Len(store) >= 1 /\ Len(deq) >= 1 /\ Len(enq) >= 2
    /\ tpc[W] = "loop" /\ tpc[M] \notin {"done", "raised"}
    /\ ~closed

(* C34: Operations that do not succeed leave the bus unchanged.  A step in
   which a try_put returns False, a put or put_many raises the closed-bus
   error, a get returns None, or size() returns leaves the queue (and the
   capacity) as it was, and size() returns the length of that queue; the
   closed flag changes only in a step in which a close() returns, and only
   to True. *)
Returns(t) ==
    /\ pc'[t] = "idle"
    /\ pc[t] # "idle" \/ (last' = t /\ nops' = nops + 1)
Unsuccessful(t) ==
    \/ op'[t] = "try_put" /\ res'[t] = BoolRes(FALSE)
    \/ op'[t] \in {"put", "put_many"} /\ res'[t] = BusClosedError
    \/ op'[t] = "get" /\ res'[t] = Empty
    \/ op'[t] = "size"
C34_FailedOpsLeaveBus ==
    [][ /\ \A t \in Threads :
              (Returns(t) /\ Unsuccessful(t)) =>
                  /\ queue' = queue /\ capacity' = capacity
                  /\ enq' = enq /\ deq' = deq
        /\ \A t \in Threads :
              (Returns(t) /\ op'[t] = "size") => res'[t] = IntRes(Len(queue))
        /\ \A t \in Threads :
              (Returns(t) /\ op'[t] # "close") => closed' = closed
        /\ (closed' # closed) =>
              /\ closed' = TRUE
              /\ \E t \in Threads : Returns(t) /\ op'[t] = "close" ]_vars
\* a try_put has returned False and a size has returned the length of a
\* queue that still holds its triple
C34_Witness ==
    /\ Len(queue) = 1 /\ ~closed
    /\ \E t, u \in Threads :
          /\ t # u
          /\ pc[t] = "idle" /\ op[t] = "try_put" /\ res[t] = BoolRes(FALSE)
          /\ pc[u] = "idle" /\ op[u] = "size" /\ res[u] = IntRes(1)

(* C35: Best-effort memory pressure in the centralized topology.  Whatever the
   allocation of the memory block does (not requested, done, failed), the
   consumer goes on to its drain loop and touches neither bus nor store in
   that step; a failed allocation alone never ends the consumer thread; and a
   consumer that has finished after a failed allocation has, in a run without
   other failure, appended every stage-1 triple and run stage-2 once, over
   the whole store. *)
C35_HogFailureIgnored ==
    /\ [][(tpc[M] = "alloc" /\ tpc'[M] # "alloc") =>
              /\ tpc'[M] = "drain"
              /\ memory_hog' \in {"none", "held", "failed"}
              /\ (memory_hog' = "none") <=> (cfg.heavy_q2_memory_mb <= 0)
              /\ UNCHANGED <<busvars, store, appends, mbatch, q2calls, q2in>>]_vars
    /\ []((memory_hog = "failed" /\ cfg.master_fails = "none") => tpc[M] # "raised")
    /\ []((memory_hog = "failed" /\ tpc[M] = "done" /\ NoFailure) =>
              /\ store = q1out
              /\ q2calls = 1 /\ q2in = store
              /\ closed /\ queue = <<>>)
\* the allocation failed and the consumer finished: all triples appended,
\* stage-2 run once over them
C35_Witness ==
    /\ topo = "central" /\ memory_hog = "failed" /\ NoFailure
    /\ tpc[M] = "done" /\ Len(store) = MaxN /\ store = q1out
    /\ q2calls = 1 /\ q2in = store

(* C36: run_experiment reports, for each topology, the number of stage-2
   output triples of that run: the value printed as out=<n> equals the length
   of the stage-2 output sequence that run_centralized / run_distributed
   returned. *)
Stage2Output(r) == rets[r].items[1].items
C36_OutIsStage2Count ==
    \A k \in 1..Len(printed) :
        printed[k].line \in Runs => printed[k].out = Len(Stage2Output(printed[k].line))

\* what the code prints instead: the length of the returned pair
C36_OutIsTwo ==
    \A k \in 1..Len(printed) :
        printed[k].line \in Runs =>
            /\ printed[k].out = 2
            /\ printed[k].out # Len(Stage2Output(printed[k].line))

====
